---- MODULE Spec2Model ----
(***************************************************************************)
(* AWS Query protocol adapter of aws-smithy-http-server:                   *)
(*   protocol/aws_query/router.rs        AwsQueryRouter, match_route       *)
(*   protocol/aws_query/runtime_error.rs RuntimeError, into_response       *)
(* The route table (crate::routing::tiny_map::TinyMap) is not part of the  *)
(* two files; it is modelled from its description in the specification.    *)
(***************************************************************************)
EXTENDS Integers, Sequences, FiniteSets, TLC

VARIABLES
    input,      \* the entries handed to from_iter when the router was built
    router,     \* the current AwsQueryRouter
    prev,       \* the router that the last layer()/boxed() call consumed
    lastOp,     \* "new", "layer" or "boxed": how `router` was produced
    applied,    \* the wrappers applied by layer()/boxed() so far, in order
    request,    \* the request of the (single) match_route call of Spec
    result,     \* its result
    seen,       \* the keys an iteration over `prev` and over `router` visited
    pc,         \* SpecConc: position of every caller inside match_route
    req,        \* SpecConc: the request every caller is matching
    target,     \* SpecConc: the discriminator every caller extracted
    res,        \* SpecConc: the result every caller obtained
    rej,        \* SpecErr: the upstream rejection, if any
    err,        \* SpecErr: the RuntimeError
    resp        \* SpecErr: the http::Response built from it

vars == <<input, router, prev, lastOp, applied, request, result, seen,
          pc, req, target, res, rej, err, resp>>

routerVars == <<input, router, prev, lastOp, applied>>
callVars == <<request, result, seen>>
concVars == <<pc, req, target, res>>
errVars == <<rej, err, resp>>

(***************************************************************************)
(* Bounds                                                                  *)
(***************************************************************************)
MaxRoutes == 16     \* largest number of entries of a route table
MaxPairs == 2       \* largest number of query pairs of a request
MaxDepth == 1       \* largest number of chained layer()/boxed() calls
MaxSeen == 1        \* largest number of entries an iteration is followed for
NumCallers == 2     \* concurrent callers of match_route

(***************************************************************************)
(* Program constants                                                       *)
(***************************************************************************)
ROUTE_CUTOFF == 15

BAD_REQUEST == 400
INTERNAL_SERVER_ERROR == 500
NOT_ACCEPTABLE == 406
UNSUPPORTED_MEDIA_TYPE == 415

(***************************************************************************)
(* Discriminators and service handles                                      *)
(***************************************************************************)
OpNames ==
    << "Svc.Op01", "Svc.Op02", "Svc.Op03", "Svc.Op04", "Svc.Op05", "Svc.Op06",
       "Svc.Op07", "Svc.Op08", "Svc.Op09", "Svc.Op10", "Svc.Op11", "Svc.Op12",
       "Svc.Op13", "Svc.Op14", "Svc.Op15", "Svc.Op16", "Svc.Op17", "Svc.Op18",
       "Svc.Op19" >>

\* The service registered for discriminator k, not yet wrapped by any layer.
Service(k) == [op |-> k, layers |-> <<>>]

NoRoute == [op |-> "", layers |-> <<>>]

Layers == {"log", "auth"}

\* layer.layer(route): the route wrapped by one more layer.
apply_layer(f, route) == [op |-> route.op, layers |-> Append(route.layers, f)]

\* Route::new(s): the type-erased route.
Route_new(s) == [op |-> s.op, layers |-> Append(s.layers, "Route")]

Entry(k, v) == [key |-> k, route |-> v]

RECURSIVE SeqKeys(_)
SeqKeys(entries) ==
    IF entries = <<>> THEN <<>>
    ELSE <<Head(entries).key>> \o SeqKeys(Tail(entries))

Reverse(s) == [i \in 1..Len(s) |-> s[Len(s) + 1 - i]]

(***************************************************************************)
(* TinyMap<K, V, CUTOFF>                                                   *)
(***************************************************************************)
Some(v) == [some |-> TRUE, value |-> v]
None == [some |-> FALSE, value |-> NoRoute]

\* The value of the last entry with key k (a later insert overwrites).
LastValue(entries, k) ==
    LET i == CHOOSE j \in 1..Len(entries) :
                 /\ entries[j].key = k
                 /\ \A l \in (j + 1)..Len(entries) : entries[l].key # k
    IN  entries[i].route

\* collect(entries): an ordered sequence at or below the cutoff, a hash-keyed
\* map above it.  The hash-keyed map has no order of its own: it is the
\* mapping from its keys to their values.
TinyMap_collect(entries) ==
    IF Len(entries) <= ROUTE_CUTOFF
    THEN [kind |-> "Vec", vec |-> entries, map |-> <<>>]
    ELSE [kind |-> "HashMap", vec |-> <<>>,
          map |-> [k \in {entries[i].key : i \in 1..Len(entries)} |->
                      LastValue(entries, k)]]

TinyMap_get(m, k) ==
    IF m.kind = "Vec"
    THEN IF \E i \in 1..Len(m.vec) : m.vec[i].key = k
         THEN Some(m.vec[CHOOSE i \in 1..Len(m.vec) :
                             /\ m.vec[i].key = k
                             /\ \A j \in 1..(i - 1) : m.vec[j].key # k].route)
         ELSE None
    ELSE IF k \in DOMAIN m.map THEN Some(m.map[k]) ELSE None

Min(a, b) == IF a <= b THEN a ELSE b

\* The keys that the first n steps of an iteration over the table can visit:
\* the first keys of the sequence, or any distinct keys of the hash-keyed
\* map, whose iteration follows the hash of the keys and the hash state of
\* the table, not the order of insertion.
TinyMap_iter_prefixes(m, n) ==
    IF m.kind = "Vec"
    THEN {SeqKeys(SubSeq(m.vec, 1, Min(n, Len(m.vec))))}
    ELSE {p \in [1..Min(n, Cardinality(DOMAIN m.map)) -> DOMAIN m.map] :
            \A i, j \in DOMAIN p : i # j => p[i] # p[j]}

(***************************************************************************)
(* AwsQueryRouter                                                          *)
(***************************************************************************)
\* from_iter that loses the entry at index CUTOFF when it switches to a hash.
from_iter_drop_at_cutoff(iter) ==
    IF Len(iter) <= ROUTE_CUTOFF
    THEN [routes |-> TinyMap_collect(iter)]
    ELSE [routes |-> TinyMap_collect(
            SubSeq(iter, 1, ROUTE_CUTOFF) \o SubSeq(iter, ROUTE_CUTOFF + 2, Len(iter)))]

from_iter(iter) == [routes |-> TinyMap_collect(iter)]

\* into_iter().map(..).collect(): a sequence is rebuilt in its order; a
\* hash-keyed map has more than ROUTE_CUTOFF entries, so in whatever order
\* they are visited, collect builds a hash-keyed map of them.
layer(self, f) ==
    LET m == self.routes
    IN  IF m.kind = "Vec"
        THEN [routes |-> TinyMap_collect(
                [i \in 1..Len(m.vec) |->
                    Entry(m.vec[i].key, apply_layer(f, m.vec[i].route))])]
        ELSE [routes |-> [kind |-> "HashMap", vec |-> <<>>,
                          map |-> [k \in DOMAIN m.map |-> apply_layer(f, m.map[k])]]]

boxed(self) ==
    LET m == self.routes
    IN  IF m.kind = "Vec"
        THEN [routes |-> TinyMap_collect(
                [i \in 1..Len(m.vec) |->
                    Entry(m.vec[i].key, Route_new(m.vec[i].route))])]
        ELSE [routes |-> [kind |-> "HashMap", vec |-> <<>>,
                          map |-> [k \in DOMAIN m.map |-> Route_new(m.map[k])]]]

(***************************************************************************)
(* Requests                                                                *)
(***************************************************************************)
\* A name or value of the query string as it is on the wire: a sequence of
\* literal chunks and escapes.
RawKeys == { <<"Action">>, <<"action">>, <<"%41", "ction">> }
RawValues == { <<"Svc.Op01">>, <<"Svc", "%2E", "Op16">> }

RawPairs == [k : RawKeys, v : RawValues]

Queries == UNION {[1..n -> RawPairs] : n \in 0..MaxPairs}

Methods == {"POST", "GET", "post"}

\* "absolute": http://localhost/something?<query>
\* "origin":   /?<query>          (path and query only)
\* "asterisk": *
Uris == [form : {"absolute", "origin"}, query : Queries]
            \cup {[form |-> "asterisk", query |-> <<>>]}

Requests == [method : Methods, uri : Uris]

\* application/x-www-form-urlencoded decoding of one chunk.
decode_chunk(c) ==
    CASE c = "+" -> " "
      [] c = "%41" -> "A"
      [] c = "%2E" -> "."
      [] OTHER -> c

RECURSIVE percent_decode(_)
percent_decode(raw) ==
    IF raw = <<>> THEN ""
    ELSE decode_chunk(Head(raw)) \o percent_decode(Tail(raw))

\* Url::parse(&request.uri().to_string()): only a string with a scheme is a
\* URL; a relative reference has no base to be resolved against.
Url_parse(uri) ==
    IF uri.form = "absolute"
    THEN [ok |-> TRUE, query |-> uri.query]
    ELSE [ok |-> FALSE, query |-> <<>>]

\* url.query_pairs(): the decoded (name, value) pairs in query-string order.
query_pairs(url) ==
    [i \in 1..Len(url.query) |->
        [k |-> percent_decode(url.query[i].k), v |-> percent_decode(url.query[i].v)]]

\* find that compares the parameter name without regard to case.
find_action_nocase(pairs) ==
    IF \E i \in 1..Len(pairs) : pairs[i].k \in {"Action", "action"}
    THEN [some |-> TRUE,
          v |-> pairs[CHOOSE i \in 1..Len(pairs) :
                          /\ pairs[i].k \in {"Action", "action"}
                          /\ \A j \in 1..(i - 1) : pairs[j].k \notin {"Action", "action"}].v]
    ELSE [some |-> FALSE, v |-> ""]

\* find that keeps the last element satisfying the predicate.
find_action_last(pairs) ==
    IF \E i \in 1..Len(pairs) : pairs[i].k = "Action"
    THEN [some |-> TRUE,
          v |-> pairs[CHOOSE i \in 1..Len(pairs) :
                          /\ pairs[i].k = "Action"
                          /\ \A j \in (i + 1)..Len(pairs) : pairs[j].k # "Action"].v]
    ELSE [some |-> FALSE, v |-> ""]

\* Iterator::find: the first element satisfying the predicate.
find_action(pairs) ==
    IF \E i \in 1..Len(pairs) : pairs[i].k = "Action"
    THEN [some |-> TRUE,
          v |-> pairs[CHOOSE i \in 1..Len(pairs) :
                          /\ pairs[i].k = "Action"
                          /\ \A j \in 1..(i - 1) : pairs[j].k # "Action"].v]
    ELSE [some |-> FALSE, v |-> ""]

(***************************************************************************)
(* Router::match_route                                                     *)
(***************************************************************************)
Ok(route) == [tag |-> "Ok", error |-> "", route |-> route]
Err(e) == [tag |-> "Err", error |-> e, route |-> NoRoute]
NoResult == [tag |-> "None", error |-> "", route |-> NoRoute]

\* A method check that ignores case.
method_allowed_nocase(r) == r.method \in {"POST", "post"}

method_allowed(r) == r.method = "POST"

\* A lookup that reports a missing route with the other error variant.
lookup_route_wrong_error(self, t) ==
    LET route == TinyMap_get(self.routes, t)
    IN  IF route.some THEN Ok(route.value) ELSE Err("MethodNotAllowed")

\* self.routes.get(target).ok_or(Error::NotFound)?; Ok(route.clone())
lookup_route(self, t) ==
    LET route == TinyMap_get(self.routes, t)
    IN  IF route.some THEN Ok(route.value) ELSE Err("NotFound")

RECURSIVE RemoveKey(_, _)
RemoveKey(entries, t) ==
    IF entries = <<>> THEN <<>>
    ELSE IF Head(entries).key = t THEN RemoveKey(Tail(entries), t)
    ELSE <<Head(entries)>> \o RemoveKey(Tail(entries), t)

\* The router after the matched route was moved out of the table.
routes_after_take(self, t) ==
    [routes |->
        IF self.routes.kind = "Vec"
        THEN [self.routes EXCEPT !.vec = RemoveKey(self.routes.vec, t)]
        ELSE [self.routes EXCEPT
                 !.map = [k \in (DOMAIN self.routes.map) \ {t} |-> self.routes.map[k]]]]

\* The router after `route.clone()`: self is borrowed, the entry stays.
routes_after_match(self, t) == self

match_route(self, r) ==
    IF ~method_allowed(r) THEN Err("MethodNotAllowed")
    ELSE LET url == Url_parse(r.uri)
         IN  IF ~url.ok THEN Err("NotFound")
             ELSE LET found == find_action(query_pairs(url))
                  IN  IF ~found.some THEN Err("NotFound")
                      ELSE lookup_route(self, found.v)

(***************************************************************************)
(* Construction: routers built from an ordered sequence of entries with    *)
(* unique discriminators                                                   *)
(***************************************************************************)
TableSizes == {n \in 0..MaxRoutes : n <= 2 \/ n >= ROUTE_CUTOFF - 1}

Window(off, n) == [i \in 1..n |-> Entry(OpNames[off + i], Service(OpNames[off + i]))]

Inputs == {Window(off, n) : off \in {0, 1}, n \in TableSizes}
            \cup {Reverse(Window(off, n)) : off \in {0, 1}, n \in TableSizes}

NoSeen == [done |-> FALSE, prev |-> <<>>, now |-> <<>>]

NoRequest == [method |-> "", uri |-> [form |-> "", query |-> <<>>]]

InitRouter ==
    /\ input \in Inputs
    /\ router = from_iter(input)
    /\ prev = router
    /\ lastOp = "new"
    /\ applied = <<>>

Callers == 1..NumCallers

NoRejection == [kind |-> "None", variant |-> "", reason |-> ""]
NoError == [variant |-> "None", cause |-> "", reason |-> ""]
NoResponse == [status |-> 0, content_type |-> "", extension |-> "", body |-> ""]

InitIdle ==
    /\ request = NoRequest
    /\ result = NoResult
    /\ seen = NoSeen
    /\ pc = [c \in Callers |-> "idle"]
    /\ req = [c \in Callers |-> NoRequest]
    /\ target = [c \in Callers |-> ""]
    /\ res = [c \in Callers |-> NoResult]
    /\ rej = NoRejection
    /\ err = NoError
    /\ resp = NoResponse

Init == InitRouter /\ InitIdle

\* router.layer(f), during set-up (before the router is published).
Layer(f) ==
    /\ result = NoResult /\ ~seen.done
    /\ Len(applied) < MaxDepth
    /\ router' = layer(router, f)
    /\ prev' = router
    /\ lastOp' = "layer"
    /\ applied' = Append(applied, f)
    /\ UNCHANGED <<input, callVars, concVars, errVars>>

\* router.boxed(), during set-up.
Boxed ==
    /\ result = NoResult /\ ~seen.done
    /\ Len(applied) < MaxDepth
    /\ router' = boxed(router)
    /\ prev' = router
    /\ lastOp' = "boxed"
    /\ applied' = Append(applied, "Route")
    /\ UNCHANGED <<input, callVars, concVars, errVars>>

\* One call router.match_route(&r).
Call(r) ==
    /\ result = NoResult /\ ~seen.done
    /\ request' = r
    /\ result' = match_route(router, r)
    /\ router' = IF result'.tag = "Ok"
                 THEN routes_after_match(router, result'.route.op)
                 ELSE router
    /\ UNCHANGED <<input, prev, lastOp, applied, seen, concVars, errVars>>

\* The first entries of an iteration over the router, and over the router it
\* was made from by layer()/boxed().  A router that was not transformed is
\* one table, iterated once.
Iterate ==
    /\ result = NoResult /\ ~seen.done
    /\ \E p \in TinyMap_iter_prefixes(prev.routes, MaxSeen),
          q \in TinyMap_iter_prefixes(router.routes, MaxSeen) :
          /\ lastOp = "new" => p = q
          /\ seen' = [done |-> TRUE, prev |-> p, now |-> q]
    /\ UNCHANGED <<routerVars, request, result, concVars, errVars>>

Next ==
    \/ \E f \in Layers : Layer(f)
    \/ Boxed
    \/ Iterate
    \/ \E r \in Requests : Call(r)

Spec == Init /\ [][Next]_vars

(***************************************************************************)
(* Concurrent callers of match_route on one published router.  Every       *)
(* caller runs the steps of match_route one at a time.                     *)
(***************************************************************************)
ConcInputs == {Window(0, n) : n \in TableSizes}

ConcRequests ==
    {r \in Requests :
        /\ r.method \in {"POST", "GET"}
        /\ r.uri.form \in {"absolute", "origin"}
        /\ Len(r.uri.query) <= 1
        /\ \A i \in 1..Len(r.uri.query) :
              /\ r.uri.query[i].k = <<"Action">>
              /\ r.uri.query[i].v \in RawValues}

InitConc ==
    /\ input \in ConcInputs
    /\ router = from_iter(input)
    /\ prev = router
    /\ lastOp = "new"
    /\ applied = <<>>
    /\ InitIdle

\* if request.method() != http::Method::POST { return Err(MethodNotAllowed) }
Begin(c, r) ==
    /\ pc[c] = "idle"
    /\ req' = [req EXCEPT ![c] = r]
    /\ IF method_allowed(r)
       THEN /\ pc' = [pc EXCEPT ![c] = "parse"]
            /\ res' = [res EXCEPT ![c] = NoResult]
       ELSE /\ pc' = [pc EXCEPT ![c] = "done"]
            /\ res' = [res EXCEPT ![c] = Err("MethodNotAllowed")]
    /\ UNCHANGED <<routerVars, callVars, target, errVars>>

\* let url = Url::parse(..).map_err(|_e| Error::NotFound)?;
Parse(c) ==
    /\ pc[c] = "parse"
    /\ IF Url_parse(req[c].uri).ok
       THEN /\ pc' = [pc EXCEPT ![c] = "find"]
            /\ res' = res
       ELSE /\ pc' = [pc EXCEPT ![c] = "done"]
            /\ res' = [res EXCEPT ![c] = Err("NotFound")]
    /\ UNCHANGED <<routerVars, callVars, req, target, errVars>>

\* let (_, target) = url.query_pairs().find(..).ok_or(Error::NotFound)?;
Find(c) ==
    /\ pc[c] = "find"
    /\ LET found == find_action(query_pairs(Url_parse(req[c].uri)))
       IN  IF found.some
           THEN /\ pc' = [pc EXCEPT ![c] = "lookup"]
                /\ target' = [target EXCEPT ![c] = found.v]
                /\ res' = res
           ELSE /\ pc' = [pc EXCEPT ![c] = "done"]
                /\ target' = target
                /\ res' = [res EXCEPT ![c] = Err("NotFound")]
    /\ UNCHANGED <<routerVars, callVars, req, errVars>>

\* let route = self.routes.get(..).ok_or(Error::NotFound)?; Ok(route.clone())
Lookup(c) ==
    /\ pc[c] = "lookup"
    /\ res' = [res EXCEPT ![c] = lookup_route(router, target[c])]
    /\ router' = IF res'[c].tag = "Ok"
                 THEN routes_after_match(router, target[c])
                 ELSE router
    /\ pc' = [pc EXCEPT ![c] = "done"]
    /\ UNCHANGED <<input, prev, lastOp, applied, callVars, req, target, errVars>>

\* The caller takes its result and is ready for its next request.
Return(c) ==
    /\ pc[c] = "done"
    /\ pc' = [pc EXCEPT ![c] = "idle"]
    /\ req' = [req EXCEPT ![c] = NoRequest]
    /\ target' = [target EXCEPT ![c] = ""]
    /\ res' = [res EXCEPT ![c] = NoResult]
    /\ UNCHANGED <<routerVars, callVars, errVars>>

NextConc ==
    \/ \E c \in Callers, r \in ConcRequests : Begin(c, r)
    \/ \E c \in Callers : Parse(c)
    \/ \E c \in Callers : Find(c)
    \/ \E c \in Callers : Lookup(c)
    \/ \E c \in Callers : Return(c)

SpecConc == InitConc /\ [][NextConc]_vars

(***************************************************************************)
(* RuntimeError                                                            *)
(***************************************************************************)
Serialization(cause) == [variant |-> "Serialization", cause |-> cause, reason |-> ""]
InternalFailure(cause) == [variant |-> "InternalFailure", cause |-> cause, reason |-> ""]
NotAcceptable == [variant |-> "NotAcceptable", cause |-> "", reason |-> ""]
UnsupportedMediaType == [variant |-> "UnsupportedMediaType", cause |-> "", reason |-> ""]
Validation(reason) == [variant |-> "Validation", cause |-> "", reason |-> reason]

name(e) ==
    CASE e.variant = "Serialization" -> "SerializationException"
      [] e.variant = "InternalFailure" -> "InternalFailureException"
      [] e.variant = "NotAcceptable" -> "NotAcceptableException"
      [] e.variant = "UnsupportedMediaType" -> "UnsupportedMediaTypeException"
      [] e.variant = "Validation" -> "ValidationException"

\* A status table in which NotAcceptable is a plain bad request.
status_code_not_acceptable_400(e) ==
    CASE e.variant = "Serialization" -> BAD_REQUEST
      [] e.variant = "InternalFailure" -> INTERNAL_SERVER_ERROR
      [] e.variant = "NotAcceptable" -> BAD_REQUEST
      [] e.variant = "UnsupportedMediaType" -> UNSUPPORTED_MEDIA_TYPE
      [] e.variant = "Validation" -> BAD_REQUEST

status_code(e) ==
    CASE e.variant = "Serialization" -> BAD_REQUEST
      [] e.variant = "InternalFailure" -> INTERNAL_SERVER_ERROR
      [] e.variant = "NotAcceptable" -> NOT_ACCEPTABLE
      [] e.variant = "UnsupportedMediaType" -> UNSUPPORTED_MEDIA_TYPE
      [] e.variant = "Validation" -> BAD_REQUEST

\* The body of the response: the reason of a Validation, else "".
response_body(e) == IF e.variant = "Validation" THEN e.reason ELSE ""

into_response(e) ==
    [status |-> status_code(e),
     content_type |-> "application/x-amz-json-1.1",
     extension |-> name(e),
     body |-> response_body(e)]

\* impl IntoResponse<AwsQuery> for InternalFailureException
InternalFailureException_into_response == into_response(InternalFailure(""))

\* crate::Error::new(err): the boxed rejection, here its description.
Error_new(r) == r.kind \o "Rejection::" \o r.variant

from_ResponseRejection(r) == Serialization(Error_new(r))

\* A conversion without the ConstraintViolation arm.
from_RequestRejection_all_serialization(r) == Serialization(Error_new(r))

from_RequestRejection(r) ==
    IF r.variant = "ConstraintViolation"
    THEN Validation(r.reason)
    ELSE Serialization(Error_new(r))

(***************************************************************************)
(* Errors raised while a matched operation is processed, and their         *)
(* responses                                                               *)
(***************************************************************************)
MaxReasonWords == 2     \* largest number of words of a Validation reason

ReasonWords == {"bad field", " is too long", "?"}

RECURSIVE Join(_)
Join(ws) == IF ws = <<>> THEN "" ELSE Head(ws) \o Join(Tail(ws))

Reasons == {Join(ws) : ws \in UNION {[1..n -> ReasonWords] : n \in 0..MaxReasonWords}}

Causes == {"invalid XML", "unexpected EOF", "handler panicked", "poisoned lock"}

RequestRejections ==
    {[kind |-> "Request", variant |-> "ConstraintViolation", reason |-> x] : x \in Reasons}
    \cup {[kind |-> "Request", variant |-> v, reason |-> ""] :
            v \in {"HttpBody", "Deserialize", "MissingContentType", "NotAcceptable"}}

ResponseRejections ==
    {[kind |-> "Response", variant |-> v, reason |-> ""] :
        v \in {"Serialization", "HttpBuild"}}

RuntimeErrors ==
    {Serialization(c) : c \in Causes} \cup {InternalFailure(c) : c \in Causes}
    \cup {NotAcceptable, UnsupportedMediaType} \cup {Validation(x) : x \in Reasons}

InitErr ==
    /\ input = <<>>
    /\ router = from_iter(input)
    /\ prev = router
    /\ lastOp = "new"
    /\ applied = <<>>
    /\ InitIdle

\* Request or response processing fails with a rejection.
Reject(r) ==
    /\ rej = NoRejection /\ err = NoError
    /\ rej' = r
    /\ UNCHANGED <<routerVars, callVars, concVars, err, resp>>

\* RuntimeError::from(rejection)
Convert ==
    /\ rej # NoRejection /\ err = NoError
    /\ err' = IF rej.kind = "Request"
              THEN from_RequestRejection(rej)
              ELSE from_ResponseRejection(rej)
    /\ UNCHANGED <<routerVars, callVars, concVars, rej, resp>>

\* A RuntimeError constructed directly by the framework.
Raise(e) ==
    /\ rej = NoRejection /\ err = NoError
    /\ err' = e
    /\ UNCHANGED <<routerVars, callVars, concVars, rej, resp>>

\* IntoResponse::<AwsQuery>::into_response(err)
Respond ==
    /\ err # NoError /\ resp = NoResponse
    /\ resp' = into_response(err)
    /\ UNCHANGED <<routerVars, callVars, concVars, rej, err>>

\* InternalFailureException.into_response()
RespondInternalFailure ==
    /\ rej = NoRejection /\ err = NoError /\ resp = NoResponse
    /\ err' = InternalFailure("")
    /\ resp' = InternalFailureException_into_response
    /\ UNCHANGED <<routerVars, callVars, concVars, rej>>

NextErr ==
    \/ \E r \in RequestRejections \cup ResponseRejections : Reject(r)
    \/ Convert
    \/ \E e \in RuntimeErrors : Raise(e)
    \/ Respond
    \/ RespondInternalFailure

SpecErr == InitErr /\ [][NextErr]_vars

(***************************************************************************)
(* Reference notions used by the properties                                *)
(***************************************************************************)
InputKeys == {input[i].key : i \in 1..Len(input)}

\* The handle registered for k, as wrapped by the layers applied so far.
Handle(k) == [op |-> k, layers |-> applied]

IsActionPair(p) == percent_decode(p.k) = "Action"

\* The values of the parameters named "Action", in query-string order.
ActionValues(r) ==
    LET ps == SelectSeq(r.uri.query, IsActionPair)
    IN  [i \in 1..Len(ps) |-> percent_decode(ps[i].v)]

HasAction(r) == ActionValues(r) # <<>>

FirstAction(r) == Head(ActionValues(r))

IsAbsolute(r) == r.uri.form = "absolute"

Called == result # NoResult

\* What a call returns on a router built from `input`.
Expected(r) ==
    IF r.method # "POST" THEN Err("MethodNotAllowed")
    ELSE IF ~IsAbsolute(r) \/ ~HasAction(r) THEN Err("NotFound")
    ELSE IF FirstAction(r) \in InputKeys THEN Ok(Handle(FirstAction(r)))
    ELSE Err("NotFound")

(***************************************************************************)
(* C1: a POST request whose "Action" value is a registered discriminator   *)
(* is matched to that discriminator's handle, for an absolute URI and for  *)
(* an origin-form URI alike.                                               *)
(***************************************************************************)
C1_RegisteredActionMatches ==
    (/\ Called
     /\ request.method = "POST"
     /\ request.uri.form \in {"absolute", "origin"}
     /\ HasAction(request)
     /\ FirstAction(request) \in InputKeys)
    => result = Ok(Handle(FirstAction(request)))

(***************************************************************************)
(* C2: a request whose method is not POST yields Err(MethodNotAllowed),    *)
(* whatever its URI.                                                       *)
(***************************************************************************)
C2_NonPostIsMethodNotAllowed ==
    (Called /\ request.method # "POST") => result = Err("MethodNotAllowed")

C2_Witness ==
    /\ Called
    /\ request.method = "GET"
    /\ IsAbsolute(request)
    /\ HasAction(request)
    /\ FirstAction(request) \in InputKeys
    /\ result = Err("MethodNotAllowed")

(***************************************************************************)
(* C3: a POST request from which no "Action" can be extracted (the URI     *)
(* does not parse, or no parameter is named "Action") yields               *)
(* Err(NotFound).                                                          *)
(***************************************************************************)
C3_NoActionIsNotFound ==
    (/\ Called
     /\ request.method = "POST"
     /\ (~IsAbsolute(request) \/ ~HasAction(request)))
    => result = Err("NotFound")

C3_Witness ==
    /\ Called
    /\ request.method = "POST"
    /\ IsAbsolute(request)
    /\ Len(request.uri.query) = MaxPairs
    /\ ~HasAction(request)
    /\ Len(input) > 0
    /\ result = Err("NotFound")

(***************************************************************************)
(* C4: a POST request whose "Action" value is not a key of the table        *)
(* yields Err(NotFound); a POST request with a parsable URI and an          *)
(* "Action" parameter yields Ok exactly when the value is a registered      *)
(* discriminator, and Err(NotFound) otherwise.                              *)
(***************************************************************************)
C4_UnregisteredIsNotFound ==
    /\ (/\ Called
        /\ request.method = "POST"
        /\ HasAction(request)
        /\ FirstAction(request) \notin InputKeys)
       => result = Err("NotFound")
    /\ (/\ Called
        /\ request.method = "POST"
        /\ IsAbsolute(request)
        /\ HasAction(request))
       => /\ result.tag = "Ok" <=> FirstAction(request) \in InputKeys
          /\ result.tag # "Ok" => result = Err("NotFound")

C4_Witness ==
    /\ Called
    /\ request.method = "POST"
    /\ IsAbsolute(request)
    /\ HasAction(request)
    /\ FirstAction(request) \notin InputKeys
    /\ Len(input) > ROUTE_CUTOFF
    /\ result = Err("NotFound")

(***************************************************************************)
(* C5: when "Action" occurs more than once, only its first occurrence       *)
(* decides the result.                                                      *)
(***************************************************************************)
C5_FirstActionDecides ==
    (/\ Called
     /\ request.method = "POST"
     /\ IsAbsolute(request)
     /\ Len(ActionValues(request)) >= 2)
    => result = IF FirstAction(request) \in InputKeys
                THEN Ok(Handle(FirstAction(request)))
                ELSE Err("NotFound")

C5_Witness ==
    /\ Called
    /\ request.method = "POST"
    /\ IsAbsolute(request)
    /\ Len(ActionValues(request)) >= 2
    /\ FirstAction(request) \notin InputKeys
    /\ ActionValues(request)[2] \in InputKeys
    /\ result = Err("NotFound")

(***************************************************************************)
(* C6: layer(f) and boxed() give a router with the same keys, in the same   *)
(* iteration order, as the one they consumed, whatever its size; every     *)
(* value is replaced by its wrapped value, and match_route has the same    *)
(* results up to the wrapping.                                             *)
(***************************************************************************)
Transformed == lastOp \in {"layer", "boxed"}

Wrap(v) == IF lastOp = "layer" THEN apply_layer(applied[Len(applied)], v) ELSE Route_new(v)

KeysOf(r) ==
    IF r.routes.kind = "Vec"
    THEN {r.routes.vec[i].key : i \in 1..Len(r.routes.vec)}
    ELSE DOMAIN r.routes.map

ValuesWrapped ==
    \A k \in KeysOf(prev) :
        TinyMap_get(router.routes, k) = Some(Wrap(TinyMap_get(prev.routes, k).value))

SameMatches ==
    Called =>
        LET before == match_route(prev, request)
        IN  /\ result.tag = before.tag
            /\ result.error = before.error
            /\ result.tag = "Ok" => result.route = Wrap(before.route)

C9_MatchLeavesRouterUnchanged ==
    /\ router = from_iter(input)
    /\ KeysOf(router) = {input[i].key : i \in 1..Len(input)}
    /\ Len(input) <= ROUTE_CUTOFF => router.routes.vec = input
    /\ \A c \in Callers :
          /\ pc[c] = "done" => res[c] = Expected(req[c])
          /\ res[c].tag = "Ok"
                => TinyMap_get(router.routes, res[c].route.op) = Some(res[c].route)

C9_Witness ==
    \E c1, c2 \in Callers :
        /\ c1 # c2
        /\ pc[c1] = "done"
        /\ res[c1].tag = "Ok"
        /\ pc[c2] = "lookup"
        /\ target[c2] = res[c1].route.op

(***************************************************************************)
(* C10: the representation of the table is invisible: a table of at most   *)
(* 15 entries is a sequence, a larger one a hash-keyed map, and get(k)     *)
(* and match_route answer as the key-to-handle mapping of the entries.     *)
(***************************************************************************)
ProbeKeys == {OpNames[i] : i \in 1..Len(OpNames)} \cup {"Other", ""}

C10_RepresentationInvisible ==
    /\ router.routes.kind = "Vec" <=> Len(input) <= 15
    /\ router.routes.kind = "HashMap" <=> Len(input) > 15
    /\ \A k \in ProbeKeys :
          TinyMap_get(router.routes, k)
              = IF k \in InputKeys THEN Some(Handle(k)) ELSE None
    /\ Called => result = Expected(request)

C10_Witness ==
    /\ Len(input) = ROUTE_CUTOFF + 1
    /\ router.routes.kind = "HashMap"
    /\ Called
    /\ result.tag = "Ok"
    /\ result.route.op = input[ROUTE_CUTOFF + 1].key

(***************************************************************************)
(* C7: the response of every RuntimeError has the status, error name and   *)
(* body of the table, and Content-Type application/x-amz-json-1.1.         *)
(***************************************************************************)
C7_ResponseTable ==
    resp # NoResponse =>
        /\ resp.content_type = "application/x-amz-json-1.1"
        /\ resp.extension = name(err)
        /\ resp.body # "" => (err.variant = "Validation" /\ err.reason # "")
        /\ CASE err.variant = "Serialization" ->
                    /\ resp.status = 400
                    /\ resp.extension = "SerializationException"
                    /\ resp.body = ""
             [] err.variant = "InternalFailure" ->
                    /\ resp.status = 500
                    /\ resp.extension = "InternalFailureException"
                    /\ resp.body = ""
             [] err.variant = "NotAcceptable" ->
                    /\ resp.status = 406
                    /\ resp.extension = "NotAcceptableException"
                    /\ resp.body = ""
             [] err.variant = "UnsupportedMediaType" ->
                    /\ resp.status = 415
                    /\ resp.extension = "UnsupportedMediaTypeException"
                    /\ resp.body = ""
             [] err.variant = "Validation" ->
                    /\ resp.status = 400
                    /\ resp.extension = "ValidationException"
                    /\ resp.body = err.reason
             [] OTHER -> FALSE

C7_Witness ==
    /\ err = Validation("bad field")
    /\ resp.status = 400
    /\ resp.body = "bad field"
    /\ resp.extension = "ValidationException"

(***************************************************************************)
(* C8: a ConstraintViolation(reason) request rejection becomes              *)
(* Validation(reason); every other rejection becomes Serialization of the   *)
(* cause; the response of a converted rejection has status 400, and its     *)
(* body is the reason of a constraint violation and empty otherwise.        *)
(***************************************************************************)
IsConstraintViolation(r) == r.kind = "Request" /\ r.variant = "ConstraintViolation"

C8_RejectionConversion ==
    (rej # NoRejection /\ err # NoError) =>
        /\ IF IsConstraintViolation(rej)
           THEN err = Validation(rej.reason)
           ELSE /\ err.variant = "Serialization"
                /\ err.cause = rej.kind \o "Rejection::" \o rej.variant
        /\ err.variant \notin {"InternalFailure", "NotAcceptable", "UnsupportedMediaType"}
        /\ resp # NoResponse =>
              /\ resp.status = 400
              /\ resp.body = IF IsConstraintViolation(rej) THEN rej.reason ELSE ""

C8_Witness ==
    /\ IsConstraintViolation(rej)
    /\ rej.reason # ""
    /\ err = Validation(rej.reason)
    /\ resp.status = 400
    /\ resp.body = rej.reason

====
